---- MODULE Spec2Model ----
(***************************************************************************)
(* Model of the AudibleLight dataset generator:                            *)
(*   src/src/utils.py      load_config, ensure_meshes, add_random_*        *)
(*   src/src/generator.py  main                                            *)
(* The external collaborators (the scene of the simulation engine, the     *)
(* renderer, the file system, the download utility) answer                 *)
(* nondeterministically.                                                   *)
(***************************************************************************)
EXTENDS Integers, Sequences, FiniteSets, TLC

VARIABLES
    config_file,    \* the settings document on disk: [exists, content]
    clock,          \* datetime.now() at load time
    loaded,         \* what load_config returned or raised
    entry,          \* the entry point of the run: "main", "load_config", "placement"
    pc,             \* the control point of the run
    err,            \* the exception that ended the run, "" if none
    rng,            \* the state of the shared np.random.Generator
    disk,           \* the foreground and mesh directories
    meshes,         \* main's mesh inventory: the number of mesh files listed
    scene_idx,      \* main's loop variable
    mesh,           \* the mesh loaded for the current scene
    scene,          \* the audiblelight.Scene being populated
    slot,           \* main's microphone or event loop variable
    args,           \* the arguments of the outermost placement call
    call,           \* the frame of the running placement call
    log,            \* the scene calls made by the outermost placement call
    result,         \* what the last placement call returned
    tmpdir,         \* the temporary workspace of the scene
    rendered,       \* what scene.generate wrote for the current scene
    common,         \* main's sorted list of matched stems
    move_i,         \* main's enumerate index over common
    audio_dir,      \* the files of audio_out: name -> what was moved there
    meta_dir        \* the files of meta_out

vars == <<config_file, clock, loaded, entry, pc, err, rng, disk, meshes, scene_idx,
          mesh, scene, slot, args, call, log, result, tmpdir, rendered,
          common, move_i, audio_dir, meta_dir>>

(***************************************************************************)
(* Bounds of the model.                                                    *)
(***************************************************************************)
MaxClock == 1
RngMod == 8         \* the generator has RngMod states
MaxAttempts == 3    \* max_attempts of a placement call made on its own
MaxFg == 2          \* foreground files
MaxMeshes == 2      \* mesh files
MaxStems == 2       \* file stems the renderer may write
MaxSeed == 1        \* runtime.seed
MaxScenes == 2      \* runtime.num_scenes
MaxSlots == 2       \* num_mics_per_scene + events_per_scene

(***************************************************************************)
(* Python values as the YAML loader produces them.  t is the Python type,  *)
(* n the number (bool: 0/1, int: the integer, float: the value in units of *)
(* 1/FloatScale, path: 1 when absolute), s the characters of a string or   *)
(* the parts of a path, m the items of a mapping (key -> value).           *)
(***************************************************************************)
FloatScale == 2

PyNone == [t |-> "none", n |-> 0, s |-> <<>>, m |-> <<>>]
PyBool(b) == [t |-> "bool", n |-> IF b THEN 1 ELSE 0, s |-> <<>>, m |-> <<>>]
PyInt(i) == [t |-> "int", n |-> i, s |-> <<>>, m |-> <<>>]
PyFloat(ticks) == [t |-> "float", n |-> ticks, s |-> <<>>, m |-> <<>>]
PyStr(chars) == [t |-> "str", n |-> 0, s |-> chars, m |-> <<>>]
PyList == [t |-> "list", n |-> 0, s |-> <<>>, m |-> <<>>]
PyDict(items) == [t |-> "dict", n |-> 0, s |-> <<>>, m |-> items]

\* A mapping key: YAML allows keys that are not strings (1: 2).
StrKey(name) == [isstr |-> TRUE, name |-> name]
IntKey(name) == [isstr |-> FALSE, name |-> name]

\* pathlib.Path(str): separators and "." parts are dropped, a leading
\* separator makes the path absolute.
Path(chars) ==
    [t |-> "path",
     n |-> IF Len(chars) > 0 /\ chars[1] = "/" THEN 1 ELSE 0,
     s |-> SelectSeq(chars, LAMBDA c : c \notin {"/", "."}),
     m |-> <<>>]

\* What a Python call does: return a value or raise.
Return(v) == [raised |-> FALSE, value |-> v, exc |-> "", key |-> "", why |-> ""]
Raise(exc, key, why) == [raised |-> TRUE, value |-> 0, exc |-> exc, key |-> key, why |-> why]

DEFAULT_FG_DIR == Path(<<"data", "/", "esc50", "/", "fg_esc50_24k_mono">>)
DEFAULT_MESH_DIR == Path(<<"data", "/", "gibson">>)

Timestamp(now) == IF now = 0 THEN "dataset_t0" ELSE "dataset_t1"

build_default_output_paths(now) ==
    [audio_out |-> Path(<<"output", "/", Timestamp(now), "/", "em32_dev", "/", "dev-train">>),
     meta_out |-> Path(<<"output", "/", Timestamp(now), "/", "metadata_dev", "/", "dev-train">>)]

default_config_dict(now) ==
    [paths |->
        [fg_dir |-> DEFAULT_FG_DIR,
         audio_out |-> build_default_output_paths(now).audio_out,
         meta_out |-> build_default_output_paths(now).meta_out],
     runtime |->
        [seed |-> PyInt(0),
         num_scenes |-> PyInt(100),
         num_mics_per_scene |-> PyInt(5)],
     mesh |->
        [mesh_dir |-> DEFAULT_MESH_DIR,
         download_gibson_flag |-> PyBool(TRUE)],
     scene |->
        [sample_rate |-> PyInt(24000),
         scene_duration |-> PyFloat(60 * FloatScale),
         max_overlap |-> PyInt(15),
         mic_type |-> PyStr(<<"eigenmike32">>),
         bg_noise_floor_db |-> PyFloat((-50) * FloatScale)],
     events |->
        [events_per_scene |-> PyInt(15),
         event_duration_min |-> PyFloat(FloatScale \div 2),
         event_duration_max |-> PyFloat(10 * FloatScale),
         snr_min |-> PyFloat(0),
         snr_max |-> PyFloat(30 * FloatScale)]]

SectionOrder == <<"paths", "runtime", "mesh", "scene", "events">>
SectionNames == {SectionOrder[i] : i \in 1..Len(SectionOrder)}

\* A validated mapping: a function from key names to values.
EmptyDict == [k \in {} |-> PyNone]

normalise_mapping(value, key_name) ==
    IF value.t = "none" THEN Return(EmptyDict)
    ELSE IF value.t # "dict" THEN Raise("ValueError", key_name, "must be a mapping")
    ELSE IF \E k \in DOMAIN value.m : ~k.isstr
         THEN Raise("ValueError", key_name, "contains a non-string key")
    ELSE Return([name \in {k.name : k \in DOMAIN value.m} |-> value.m[StrKey(name)]])

\* The warnings one call emits, as the set of (section, key) names warned of.
warn_unknown_keys(config_values, allowed_values, section_name) ==
    {[section |-> section_name, key |-> k] :
        k \in (DOMAIN config_values) \ (DOMAIN allowed_values)}

coerce_bool(value, key_name) ==
    IF value.t = "bool" THEN Return(value.n = 1)
    ELSE Raise("ValueError", key_name, "must be a boolean")

\* isinstance(value, int) alone: booleans are integers to Python
coerce_int_AcceptsBool(value, key_name) ==
    IF value.t \notin {"int", "bool"}
    THEN Raise("ValueError", key_name, "must be an integer")
    ELSE Return(value.n)

coerce_int(value, key_name) ==
    IF value.t = "bool" \/ value.t # "int"
    THEN Raise("ValueError", key_name, "must be an integer")
    ELSE Return(value.n)

\* float(value): the result is counted in units of 1/FloatScale.
coerce_float(value, key_name) ==
    IF value.t = "bool" \/ value.t \notin {"int", "float"}
    THEN Raise("ValueError", key_name, "must be a number")
    ELSE Return(IF value.t = "int" THEN value.n * FloatScale ELSE value.n)

coerce_str(value, key_name) ==
    IF value.t # "str" THEN Raise("ValueError", key_name, "must be a string")
    ELSE IF value.s = <<>> THEN Raise("ValueError", key_name, "must not be empty")
    ELSE Return(value.s)

coerce_path(value, key_name) ==
    IF value.t = "path" THEN Return([abs |-> value.n = 1, parts |-> value.s])
    ELSE IF value.t = "str"
    THEN IF value.s = <<>> THEN Raise("ValueError", key_name, "must not be empty")
         ELSE Return([abs |-> Path(value.s).n = 1, parts |-> Path(value.s).s])
    ELSE Raise("ValueError", key_name, "must be a path string")

dict_get(d, k, default) == IF k \in DOMAIN d THEN d[k] ELSE default

\* the merge the other way round: the defaults overwrite the document
dict_update_DefaultsWin(d, r) ==
    [k \in (DOMAIN d) \cup (DOMAIN r) |-> IF k \in DOMAIN d THEN d[k] ELSE r[k]]

\* default_values.copy() followed by update(raw_section)
dict_update(d, r) ==
    [k \in (DOMAIN d) \cup (DOMAIN r) |-> IF k \in DOMAIN r THEN r[k] ELSE d[k]]

\* The first element of a sequence of call results that raised, 0 if none.
FirstRaised(results) ==
    IF \E i \in 1..Len(results) : results[i].raised
    THEN CHOOSE i \in 1..Len(results) :
            results[i].raised /\ \A j \in 1..(i - 1) : ~results[j].raised
    ELSE 0

\* "runtime_num_scenes < 0": a scene count of zero passes
num_scenes_rejected_OnlyNegative(runtime_num_scenes) == runtime_num_scenes < 0

\* if runtime_num_scenes <= 0: raise ValueError
num_scenes_rejected(runtime_num_scenes) == runtime_num_scenes <= 0

\* the num_scenes > 0 check made after every coercion
order_steps_CheckLast(runtime_num_scenes, positive, arguments) ==
    <<runtime_num_scenes>> \o arguments \o <<positive>>

\* runtime.num_scenes is coerced and checked before the constructor's
\* arguments are evaluated
order_steps(runtime_num_scenes, positive, arguments) ==
    <<runtime_num_scenes, positive>> \o arguments

\* load_config after the document has been read: the merge over the defaults,
\* then the coercions in the order the code evaluates them.
load_config(file, now) ==
    IF ~file.exists
    THEN [res |-> Raise("FileNotFoundError", "config_path", "not found"), warnings |-> {}]
    ELSE
    LET raw_config == normalise_mapping(file.content, "root") IN
    IF raw_config.raised THEN [res |-> raw_config, warnings |-> {}]
    ELSE
    LET defaults == default_config_dict(now)
        top_warnings == warn_unknown_keys(raw_config.value, defaults, "")
        raw_section(i) ==
            normalise_mapping(dict_get(raw_config.value, SectionOrder[i], PyDict(<<>>)),
                              SectionOrder[i])
        sections == [i \in 1..Len(SectionOrder) |-> raw_section(i)]
        bad == FirstRaised(sections)
        \* the sections looked at before the loop stops
        seen == IF bad = 0 THEN 1..Len(SectionOrder) ELSE 1..(bad - 1)
        warnings ==
            top_warnings \cup
            UNION {warn_unknown_keys(sections[i].value, defaults[SectionOrder[i]],
                                     SectionOrder[i]) : i \in seen}
    IN
    IF bad # 0 THEN [res |-> sections[bad], warnings |-> warnings]
    ELSE
    LET merged_config ==
            [sec \in SectionNames |->
                dict_update(defaults[sec],
                            sections[CHOOSE i \in 1..Len(SectionOrder) :
                                        SectionOrder[i] = sec].value)]
        paths_section == merged_config["paths"]
        runtime_section == merged_config["runtime"]
        mesh_section == merged_config["mesh"]
        scene_section == merged_config["scene"]
        events_section == merged_config["events"]
        runtime_num_scenes == coerce_int(runtime_section["num_scenes"], "runtime.num_scenes")
        positive ==
            IF ~runtime_num_scenes.raised /\ num_scenes_rejected(runtime_num_scenes.value)
            THEN Raise("ValueError", "runtime.num_scenes", "must be greater than 0")
            ELSE Return(TRUE)
        fg_dir == coerce_path(paths_section["fg_dir"], "paths.fg_dir")
        audio_out == coerce_path(paths_section["audio_out"], "paths.audio_out")
        meta_out == coerce_path(paths_section["meta_out"], "paths.meta_out")
        seed == coerce_int(runtime_section["seed"], "runtime.seed")
        num_mics_per_scene ==
            coerce_int(runtime_section["num_mics_per_scene"], "runtime.num_mics_per_scene")
        mesh_dir == coerce_path(mesh_section["mesh_dir"], "mesh.mesh_dir")
        download_gibson_flag ==
            coerce_bool(mesh_section["download_gibson_flag"], "mesh.download_gibson_flag")
        sample_rate == coerce_int(scene_section["sample_rate"], "scene.sample_rate")
        scene_duration == coerce_float(scene_section["scene_duration"], "scene.scene_duration")
        max_overlap == coerce_int(scene_section["max_overlap"], "scene.max_overlap")
        mic_type == coerce_str(scene_section["mic_type"], "scene.mic_type")
        bg_noise_floor_db ==
            coerce_float(scene_section["bg_noise_floor_db"], "scene.bg_noise_floor_db")
        events_per_scene ==
            coerce_int(events_section["events_per_scene"], "events.events_per_scene")
        event_duration_min ==
            coerce_float(events_section["event_duration_min"], "events.event_duration_min")
        event_duration_max ==
            coerce_float(events_section["event_duration_max"], "events.event_duration_max")
        snr_min == coerce_float(events_section["snr_min"], "events.snr_min")
        snr_max == coerce_float(events_section["snr_max"], "events.snr_max")
        steps ==
            order_steps(runtime_num_scenes, positive,
                <<fg_dir, audio_out, meta_out, seed,
                  num_mics_per_scene, mesh_dir, download_gibson_flag, sample_rate,
                  scene_duration, max_overlap, mic_type, bg_noise_floor_db,
                  events_per_scene, event_duration_min, event_duration_max, snr_min,
                  snr_max>>)
        failed == FirstRaised(steps)
    IN
    IF failed # 0 THEN [res |-> steps[failed], warnings |-> warnings]
    ELSE
    [res |-> Return(
        [paths |-> [fg_dir |-> fg_dir.value,
                    audio_out |-> audio_out.value,
                    meta_out |-> meta_out.value],
         runtime |-> [seed |-> seed.value,
                      num_scenes |-> runtime_num_scenes.value,
                      num_mics_per_scene |-> num_mics_per_scene.value],
         mesh |-> [mesh_dir |-> mesh_dir.value,
                   download_gibson_flag |-> download_gibson_flag.value],
         scene |-> [sample_rate |-> sample_rate.value,
                    scene_duration |-> scene_duration.value,
                    max_overlap |-> max_overlap.value,
                    mic_type |-> mic_type.value,
                    bg_noise_floor_db |-> bg_noise_floor_db.value],
         events |-> [events_per_scene |-> events_per_scene.value,
                     event_duration_min |-> event_duration_min.value,
                     event_duration_max |-> event_duration_max.value,
                     snr_min |-> snr_min.value,
                     snr_max |-> snr_max.value]]),
     warnings |-> warnings]

(***************************************************************************)
(* The shared random generator.  The bit generator is a congruential one   *)
(* with RngMod states; a draw advances the state and is the new state      *)
(* taken as the fraction state / RngMod of [0, 1).                         *)
(***************************************************************************)
\* a generator that ignores the seed
default_rng_Unseeded(seed) == 0

default_rng(seed) == seed % RngMod

rng_next(s) == (5 * s + 3) % RngMod

\* rng.integers(0, high): the state after the draw and the integer drawn
rng_integers(s, high) ==
    [state |-> rng_next(s), value |-> (rng_next(s) * high) \div RngMod]

\* a generator that draws from a reversed interval instead of raising
uniform_raises_Never(low, high) == FALSE

\* rng.uniform(low, high) of a numpy Generator raises ValueError when
\* high - low is negative
uniform_raises(low, high) == high - low < 0

\* rng.uniform(low, high)
rng_uniform(s, low, high) ==
    [state |-> rng_next(s), value |-> low + ((high - low) * rng_next(s)) \div RngMod]

\* rng.random(3)
rng_random3(s) ==
    [state |-> rng_next(rng_next(rng_next(s))),
     value |-> <<rng_next(s), rng_next(rng_next(s)), rng_next(rng_next(rng_next(s)))>>]

\* trimesh.load(mesh_path): the bounding box of mesh file k.  The first mesh
\* has a zero-volume box.
trimesh_load(k) ==
    [path |-> k,
     bounds |-> [min |-> <<0, 0, 0>>,
                 max |-> <<(k - 1) * 8, (k - 1) * 8, (k - 1) * 4>>]]

\* min + (max - min) * rng.random(3)
ScaleInto(lo, hi, u) == [i \in 1..3 |-> lo[i] + ((hi[i] - lo[i]) * u[i]) \div RngMod]

mic_position(m, u) == ScaleInto(m.bounds.min, m.bounds.max, u)

\* the box shrunk inward by the 10% margins, then as for a microphone
event_position(m, u) ==
    LET margins == [i \in 1..3 |-> (m.bounds.max[i] - m.bounds.min[i]) \div 10]
        lo == [i \in 1..3 |-> m.bounds.min[i] + margins[i]]
        hi == [i \in 1..3 |-> m.bounds.max[i] - margins[i]]
    IN ScaleInto(lo, hi, u)

\* position=None
NoPosition == <<>>

(***************************************************************************)
(* The placement sampler: add_random_microphone and add_random_fg_event.   *)
(* Every scene call is one step; the scene answers "ok", "ValueError" (it  *)
(* rejects the placement) or "OtherError" (any other failure).             *)
(***************************************************************************)
SceneAnswers == {"ok", "ValueError", "OtherError"}

NoCall ==
    [fn |-> "none", rng_needed |-> FALSE, attempt |-> 0, depth |-> 0,
     wav |-> 0, event_duration |-> 0, event_start |-> 0, snr |-> 0]

NoArgs ==
    [fn |-> "none", rng_needed |-> FALSE, fg_files |-> 0, scene_duration |-> 0, event_duration_min |-> 0,
     event_duration_max |-> 0, snr_min |-> 0, snr_max |-> 0, max_attempts |-> 0]

EmptyScene == [mics |-> 0, events |-> 0, ambience |-> "none"]

\* a bare "except Exception:" in place of "except ValueError:"
Caught_AnyException(answer) == answer # "ok"

\* except ValueError:
Caught(answer) == answer = "ValueError"

\* "attempt == max_attempts" in place of "attempt == max_attempts - 1"
IsLastAttempt_OffByOne(attempt, max_attempts) == attempt = max_attempts

\* if attempt == max_attempts - 1:
IsLastAttempt(attempt, max_attempts) == attempt = max_attempts - 1

\* the scene call of a microphone attempt, as logged
MicCall(position, answer) ==
    [fn |-> "mic", position |-> position, wav |-> 0, duration |-> 0, start |-> 0,
     snr |-> 0, augmentations |-> 0, answer |-> answer]

\* the scene call of an event attempt: the frame's own draws are the arguments
EventCall(frame, position, augmentations, answer) ==
    [fn |-> "event", position |-> position, wav |-> frame.wav,
     duration |-> frame.event_duration, start |-> frame.event_start,
     snr |-> frame.snr, augmentations |-> augmentations, answer |-> answer]

\* the placement call returns v to its caller
PlacementReturns(v) ==
    /\ result' = (IF v THEN "True" ELSE "False")
    /\ call' = NoCall
    /\ IF entry = "main"
       THEN /\ pc' = (IF call.fn = "mic" THEN "mics" ELSE "events")
            /\ slot' = slot + 1
       ELSE /\ pc' = "returned"
            /\ slot' = slot
    /\ err' = err

\* an exception leaves the placement call: main does not catch it
PlacementRaises(exc) ==
    /\ result' = "raised"
    /\ call' = NoCall
    /\ pc' = (IF entry = "main" THEN "aborted" ELSE "raised")
    /\ slot' = slot
    /\ err' = exc

\* the self-recursive fallback call with rng_needed=False
FallbackCall(next_pc) ==
    /\ call' = [call EXCEPT !.rng_needed = FALSE, !.attempt = 0, !.depth = @ + 1]
    /\ pc' = next_pc
    /\ UNCHANGED <<result, slot, err>>

NotMain == <<config_file, clock, loaded, entry, disk, meshes, scene_idx, mesh,
             tmpdir, rendered, common, move_i, audio_dir, meta_dir>>

\* add_random_microphone, rng_needed: one pass of the retry loop
MicAttemptA ==
    /\ pc = "mic"
    /\ call.rng_needed
    /\ call.attempt < args.max_attempts
    /\ \E answer \in SceneAnswers :
        LET u == rng_random3(rng) IN
        /\ rng' = u.state
        /\ log' = Append(log, MicCall(mic_position(mesh, u.value), answer))
        /\ scene' = IF answer = "ok" THEN [scene EXCEPT !.mics = @ + 1] ELSE scene
        /\ IF answer = "ok" THEN PlacementReturns(TRUE)
           ELSE IF Caught(answer)
           THEN IF IsLastAttempt(call.attempt, args.max_attempts)
                THEN FallbackCall("mic")
                ELSE /\ call' = [call EXCEPT !.attempt = @ + 1]
                     /\ UNCHANGED <<pc, result, slot, err>>
           ELSE PlacementRaises(answer)
    /\ UNCHANGED <<args>>
    /\ UNCHANGED NotMain

\* the retry loop ends without having run: return False
MicLoopEnds ==
    /\ pc = "mic"
    /\ call.rng_needed
    /\ call.attempt >= args.max_attempts
    /\ PlacementReturns(FALSE)
    /\ UNCHANGED <<rng, log, scene, args>>
    /\ UNCHANGED NotMain

\* add_random_microphone, not rng_needed: the backend chooses the position
MicAttemptB ==
    /\ pc = "mic"
    /\ ~call.rng_needed
    /\ \E answer \in SceneAnswers :
        /\ log' = Append(log, MicCall(NoPosition, answer))
        /\ scene' = IF answer = "ok" THEN [scene EXCEPT !.mics = @ + 1] ELSE scene
        /\ IF answer = "ok" THEN PlacementReturns(TRUE)
           ELSE IF Caught(answer) THEN PlacementReturns(FALSE)
           ELSE PlacementRaises(answer)
    /\ UNCHANGED <<rng, args>>
    /\ UNCHANGED NotMain

\* add_random_fg_event, on entry: the file, duration, start and SNR are drawn
EventDraws ==
    /\ pc = "event_enter"
    /\ LET w == rng_integers(rng, args.fg_files)
           d == rng_uniform(w.state, args.event_duration_min, args.event_duration_max)
           b == rng_uniform(d.state, 0, args.scene_duration - d.value)
           r == rng_uniform(b.state, args.snr_min, args.snr_max)
       IN IF uniform_raises(args.event_duration_min, args.event_duration_max)
          THEN /\ rng' = w.state
               /\ PlacementRaises("ValueError")
          ELSE IF uniform_raises(0, args.scene_duration - d.value)
          THEN /\ rng' = d.state
               /\ PlacementRaises("ValueError")
          ELSE IF uniform_raises(args.snr_min, args.snr_max)
          THEN /\ rng' = b.state
               /\ PlacementRaises("ValueError")
          ELSE /\ rng' = r.state
               /\ call' = [call EXCEPT !.wav = w.value + 1, !.event_duration = d.value,
                                       !.event_start = b.value, !.snr = r.value]
               /\ pc' = "event"
               /\ UNCHANGED <<result, slot, err>>
    /\ UNCHANGED <<log, scene, args>>
    /\ UNCHANGED NotMain

\* add_random_fg_event, rng_needed: one pass of the retry loop
EventAttemptA ==
    /\ pc = "event"
    /\ call.rng_needed
    /\ call.attempt < args.max_attempts
    /\ \E answer \in SceneAnswers :
        LET u == rng_random3(rng) IN
        /\ rng' = u.state
        /\ log' = Append(log, EventCall(call, event_position(mesh, u.value), 3, answer))
        /\ scene' = IF answer = "ok" THEN [scene EXCEPT !.events = @ + 1] ELSE scene
        /\ IF answer = "ok" THEN PlacementReturns(TRUE)
           ELSE IF Caught(answer)
           THEN IF IsLastAttempt(call.attempt, args.max_attempts)
                THEN FallbackCall("event_enter")
                ELSE /\ call' = [call EXCEPT !.attempt = @ + 1]
                     /\ UNCHANGED <<pc, result, slot, err>>
           ELSE PlacementRaises(answer)
    /\ UNCHANGED <<args>>
    /\ UNCHANGED NotMain

EventLoopEnds ==
    /\ pc = "event"
    /\ call.rng_needed
    /\ call.attempt >= args.max_attempts
    /\ PlacementReturns(FALSE)
    /\ UNCHANGED <<rng, log, scene, args>>
    /\ UNCHANGED NotMain

\* add_random_fg_event, not rng_needed
EventAttemptB ==
    /\ pc = "event"
    /\ ~call.rng_needed
    /\ \E answer \in SceneAnswers :
        /\ log' = Append(log, EventCall(call, NoPosition, 0, answer))
        /\ scene' = IF answer = "ok" THEN [scene EXCEPT !.events = @ + 1] ELSE scene
        /\ IF answer = "ok" THEN PlacementReturns(TRUE)
           ELSE IF Caught(answer) THEN PlacementReturns(FALSE)
           ELSE PlacementRaises(answer)
    /\ UNCHANGED <<rng, args>>
    /\ UNCHANGED NotMain

Placement ==
    \/ MicAttemptA \/ MicLoopEnds \/ MicAttemptB
    \/ EventDraws \/ EventAttemptA \/ EventLoopEnds \/ EventAttemptB

(***************************************************************************)
(* main (generator.py).                                                    *)
(***************************************************************************)
\* max_attempts=30 at both placement calls of main
MainMaxAttempts == 30

\* rng_needed=True passed at the event call
MainEventRngNeeded_True == TRUE

\* rng_needed at main's calls: the default (True) for a microphone, False
\* for an event
MainMicRngNeeded == TRUE
MainEventRngNeeded == FALSE

\* file stems, as sequences of characters (1 = "a", 2 = "b")
StemPool == << <<2>>, <<1, 2>>, <<1>>, <<1, 1>>, <<2, 1>> >>
Stems == {StemPool[i] : i \in 1..MaxStems}

RECURSIVE LexLess(_, _)
\* str.__lt__
LexLess(a, b) ==
    IF a = <<>> THEN b # <<>>
    ELSE IF b = <<>> THEN FALSE
    ELSE IF a[1] # b[1] THEN a[1] < b[1]
    ELSE LexLess(Tail(a), Tail(b))

RECURSIVE sorted(_)
sorted(S) ==
    IF S = {} THEN <<>>
    ELSE LET least == CHOOSE x \in S : \A y \in S : x = y \/ LexLess(x, y)
         IN <<least>> \o sorted(S \ {least})

DigitChars == <<"0", "1", "2", "3", "4", "5", "6", "7", "8", "9">>

RECURSIVE Decimal(_)
\* the decimal digits of n >= 0
Decimal(n) ==
    IF n < 10 THEN <<DigitChars[n + 1]>>
    ELSE Decimal(n \div 10) \o <<DigitChars[(n % 10) + 1]>>

RECURSIVE ZeroPad(_, _)
ZeroPad(digits, width) ==
    IF Len(digits) >= width THEN digits ELSE ZeroPad(<<"0">> \o digits, width)

\* f"{n:0<width>d}"
FormatD(n, width) == ZeroPad(Decimal(n), width)

\* stem = f"scene_{scene_idx:05d}"
scene_stem(idx) == <<"scene_">> \o FormatD(idx, 5)

\* the microphones numbered from 1
out_stem_OneBased(idx, i) == scene_stem(idx) \o <<"_mic">> \o FormatD(i + 1, 2)

\* out_stem = f"{stem}_mic{i:02d}"
out_stem(idx, i) == scene_stem(idx) \o <<"_mic">> \o FormatD(i, 2)

\* "len(common) < num_mics_per_scene": more pairs than microphones pass
PostconditionFails_OnlyTooFew(matched, num_mics_per_scene) ==
    Len(matched) < num_mics_per_scene

\* if len(common) != cfg.runtime.num_mics_per_scene: raise RuntimeError
PostconditionFails(matched, num_mics_per_scene) == Len(matched) # num_mics_per_scene

NoTmp == [exists |-> FALSE, wavs |-> {}, csvs |-> {}]

\* a with block that leaves its directory behind
cleanup_Leaks(workspace) == workspace

\* TemporaryDirectory.__exit__: the directory and what is left in it are removed
cleanup(workspace) == NoTmp

NotRendered == [done |-> FALSE, wavs |-> {}, csvs |-> {}]
NoFiles == [name \in {} |-> 0]
Put(dir, name, file) ==
    [x \in (DOMAIN dir) \cup {name} |-> IF x = name THEN file ELSE dir[x]]

cfg == loaded.res.value

Abort(exc) ==
    /\ pc' = "aborted"
    /\ err' = exc

Placing == <<args, call, log, result>>
Outputs == <<audio_dir, meta_dir>>
Inputs == <<config_file, clock, entry>>

\* cfg = utils.load_config(config_path); rng = np.random.default_rng(seed)
LoadConfig ==
    /\ pc = "load"
    /\ loaded' = load_config(config_file, clock)
    /\ IF loaded'.res.raised
       THEN /\ Abort(loaded'.res.exc)
            /\ rng' = rng
       ELSE /\ pc' = (IF entry = "main" THEN "list_fg" ELSE "loaded")
            /\ rng' = (IF entry = "main" THEN default_rng(loaded'.res.value.runtime.seed)
                       ELSE rng)
            /\ err' = err
    /\ UNCHANGED <<disk, meshes, scene_idx, mesh, scene, slot, tmpdir, rendered, common, move_i>>
    /\ UNCHANGED Placing
    /\ UNCHANGED Outputs
    /\ UNCHANGED Inputs

\* utils.list_audio_files(cfg.paths.fg_dir), the emptiness check, the mkdirs
ListAudioFiles ==
    /\ pc = "list_fg"
    /\ IF ~disk.fg_is_dir \/ disk.fg_wavs = 0
       THEN /\ Abort("ValueError")
            /\ disk' = disk
       ELSE /\ pc' = "ensure_meshes"
            /\ disk' = [disk EXCEPT !.outputs_exist = TRUE]
            /\ err' = err
    /\ UNCHANGED <<loaded, rng, meshes, scene_idx, mesh, scene, slot, tmpdir, rendered, common, move_i>>
    /\ UNCHANGED Placing
    /\ UNCHANGED Outputs
    /\ UNCHANGED Inputs

\* the number of .glb files found; a missing directory lists as empty
list_mesh_files(d) == IF ~d.mesh_is_dir THEN 0 ELSE d.mesh_glbs

\* the first listing taken as it comes, empty or not
has_meshes_Always(found) == TRUE

\* if meshes is not None and len(meshes) > 0: return meshes
has_meshes(found) == found > 0

\* utils.ensure_meshes(cfg.mesh.mesh_dir, cfg.mesh.download_gibson_flag);
\* download_gibson may itself raise, after the directory has been made
EnsureMeshes ==
    /\ pc = "ensure_meshes"
    /\ IF has_meshes(list_mesh_files(disk))
       THEN /\ meshes' = list_mesh_files(disk)
            /\ pc' = "scene"
            /\ UNCHANGED <<disk, err>>
       ELSE IF ~cfg.mesh.download_gibson_flag
       THEN /\ Abort("ValueError")
            /\ UNCHANGED <<disk, meshes>>
       ELSE \E fetched \in 0..MaxMeshes, download_raises \in BOOLEAN :
            /\ disk' = [disk EXCEPT !.mesh_is_dir = TRUE,
                                    !.mesh_glbs = fetched,
                                    !.downloads = @ + 1]
            /\ IF download_raises
               THEN /\ Abort("DownloadError")
                    /\ meshes' = meshes
               ELSE IF list_mesh_files(disk') = 0
               THEN /\ Abort("RuntimeError")
                    /\ meshes' = meshes
               ELSE /\ meshes' = list_mesh_files(disk')
                    /\ pc' = "scene"
                    /\ err' = err
    /\ UNCHANGED <<loaded, rng, scene_idx, mesh, scene, slot, tmpdir, rendered, common, move_i>>
    /\ UNCHANGED Placing
    /\ UNCHANGED Outputs
    /\ UNCHANGED Inputs

\* the head of the scene loop: the mesh is drawn and the scene constructed
SceneStart ==
    /\ pc = "scene"
    /\ scene_idx < cfg.runtime.num_scenes
    /\ LET m == rng_integers(rng, meshes) IN
        /\ rng' = m.state
        /\ mesh' = trimesh_load(m.value + 1)
    /\ scene' = EmptyScene
    /\ slot' = 0
    /\ pc' = "mics"
    /\ UNCHANGED <<loaded, err, disk, meshes, scene_idx, tmpdir, rendered, common, move_i>>
    /\ UNCHANGED Placing
    /\ UNCHANGED Outputs
    /\ UNCHANGED Inputs

\* the scene loop is over
RunEnds ==
    /\ pc = "scene"
    /\ scene_idx >= cfg.runtime.num_scenes
    /\ pc' = "done"
    /\ UNCHANGED <<loaded, err, rng, disk, meshes, scene_idx, mesh, scene, slot,
                   tmpdir, rendered, common, move_i>>
    /\ UNCHANGED Placing
    /\ UNCHANGED Outputs
    /\ UNCHANGED Inputs

\* for _ in range(num_mics_per_scene): utils.add_random_microphone(...)
StartMic ==
    /\ pc = "mics"
    /\ slot < cfg.runtime.num_mics_per_scene
    /\ call' = [NoCall EXCEPT !.fn = "mic", !.rng_needed = MainMicRngNeeded]
    /\ args' = [NoArgs EXCEPT !.fn = "mic", !.rng_needed = MainMicRngNeeded,
                             !.max_attempts = MainMaxAttempts]
    /\ log' = <<>>
    /\ result' = "none"
    /\ pc' = "mic"
    /\ UNCHANGED <<loaded, err, rng, disk, meshes, scene_idx, mesh, scene, slot,
                   tmpdir, rendered, common, move_i>>
    /\ UNCHANGED Outputs
    /\ UNCHANGED Inputs

MicsDone ==
    /\ pc = "mics"
    /\ slot >= cfg.runtime.num_mics_per_scene
    /\ slot' = 0
    /\ pc' = "events"
    /\ args' = NoArgs
    /\ log' = <<>>
    /\ result' = "none"
    /\ UNCHANGED <<loaded, err, rng, disk, meshes, scene_idx, mesh, scene, call,
                   tmpdir, rendered, common, move_i>>
    /\ UNCHANGED Outputs
    /\ UNCHANGED Inputs

\* for _ in range(events_per_scene): utils.add_random_fg_event(...)
StartEvent ==
    /\ pc = "events"
    /\ slot < cfg.events.events_per_scene
    /\ call' = [NoCall EXCEPT !.fn = "event", !.rng_needed = MainEventRngNeeded]
    /\ args' = [fn |-> "event",
                rng_needed |-> MainEventRngNeeded,
                fg_files |-> disk.fg_wavs,
                scene_duration |-> cfg.scene.scene_duration,
                event_duration_min |-> cfg.events.event_duration_min,
                event_duration_max |-> cfg.events.event_duration_max,
                snr_min |-> cfg.events.snr_min,
                snr_max |-> cfg.events.snr_max,
                max_attempts |-> MainMaxAttempts]
    /\ log' = <<>>
    /\ result' = "none"
    /\ pc' = "event_enter"
    /\ UNCHANGED <<loaded, err, rng, disk, meshes, scene_idx, mesh, scene, slot,
                   tmpdir, rendered, common, move_i>>
    /\ UNCHANGED Outputs
    /\ UNCHANGED Inputs

bg_noises == <<"white", "pink", "gaussian">>

\* the event loop is over: scene.add_ambience(noise=utils.get_random_bg_noise(rng))
EventsDone ==
    /\ pc = "events"
    /\ slot >= cfg.events.events_per_scene
    /\ LET c == rng_integers(rng, Len(bg_noises)) IN
        /\ rng' = c.state
        /\ scene' = [scene EXCEPT !.ambience = bg_noises[c.value + 1]]
    /\ slot' = 0
    /\ pc' = "render"
    /\ args' = NoArgs
    /\ log' = <<>>
    /\ result' = "none"
    /\ UNCHANGED <<loaded, err, disk, meshes, scene_idx, mesh, call, tmpdir, rendered, common, move_i>>
    /\ UNCHANGED Outputs
    /\ UNCHANGED Inputs

\* with tempfile.TemporaryDirectory(): scene.generate(...) writes its files
Render ==
    /\ pc = "render"
    /\ \E wavs \in SUBSET Stems, csvs \in SUBSET Stems :
        /\ tmpdir' = [exists |-> TRUE, wavs |-> wavs, csvs |-> csvs]
        /\ rendered' = [done |-> TRUE, wavs |-> wavs, csvs |-> csvs]
    /\ pc' = "check"
    /\ UNCHANGED <<loaded, err, rng, disk, meshes, scene_idx, mesh, scene, slot,
                   common, move_i>>
    /\ UNCHANGED Placing
    /\ UNCHANGED Outputs
    /\ UNCHANGED Inputs

\* scene.generate raises: the with block removes the workspace
RenderFails ==
    /\ pc = "render"
    /\ tmpdir' = cleanup(tmpdir)
    /\ Abort("RenderError")
    /\ UNCHANGED <<loaded, rng, disk, meshes, scene_idx, mesh, scene, slot, rendered,
                   common, move_i>>
    /\ UNCHANGED Placing
    /\ UNCHANGED Outputs
    /\ UNCHANGED Inputs

\* common = sorted(set(wavs) & set(csvs)) and the count check
CheckPairs ==
    /\ pc = "check"
    /\ LET matched == sorted(tmpdir.wavs \cap tmpdir.csvs) IN
        IF PostconditionFails(matched, cfg.runtime.num_mics_per_scene)
        THEN /\ Abort("RuntimeError")
             /\ tmpdir' = cleanup(tmpdir)
             /\ UNCHANGED <<common, move_i>>
        ELSE /\ common' = matched
             /\ move_i' = 0
             /\ pc' = "move"
             /\ UNCHANGED <<tmpdir, err>>
    /\ UNCHANGED <<loaded, rng, disk, meshes, scene_idx, mesh, scene, slot, rendered>>
    /\ UNCHANGED Placing
    /\ UNCHANGED Outputs
    /\ UNCHANGED Inputs

\* one pass of the loop over enumerate(common): the two shutil.move calls
MovePair ==
    /\ pc = "move"
    /\ move_i < Len(common)
    /\ LET in_stem == common[move_i + 1]
           name == out_stem(scene_idx, move_i)
           file == [scene |-> scene_idx, stem |-> in_stem]
       IN \E failure \in {"none", "wav", "csv"} :
            /\ audio_dir' = IF failure = "wav" THEN audio_dir
                            ELSE Put(audio_dir, name, file)
            /\ meta_dir' = IF failure = "none" THEN Put(meta_dir, name, file)
                           ELSE meta_dir
            /\ IF failure = "none"
               THEN /\ tmpdir' = [tmpdir EXCEPT !.wavs = @ \ {in_stem},
                                                !.csvs = @ \ {in_stem}]
                    /\ move_i' = move_i + 1
                    /\ UNCHANGED <<pc, err>>
               ELSE /\ tmpdir' = cleanup(tmpdir)
                    /\ move_i' = move_i
                    /\ Abort("OSError")
    /\ UNCHANGED <<loaded, rng, disk, meshes, scene_idx, mesh, scene, slot, rendered,
                   common>>
    /\ UNCHANGED Placing
    /\ UNCHANGED Inputs

\* the with block is left, the workspace removed, the next scene begins
SceneEnds ==
    /\ pc = "move"
    /\ move_i >= Len(common)
    /\ tmpdir' = cleanup(tmpdir)
    /\ rendered' = NotRendered
    /\ common' = <<>>
    /\ move_i' = 0
    /\ scene_idx' = scene_idx + 1
    /\ pc' = "scene"
    /\ UNCHANGED <<loaded, err, rng, disk, meshes, mesh, scene, slot>>
    /\ UNCHANGED Placing
    /\ UNCHANGED Outputs
    /\ UNCHANGED Inputs

(***************************************************************************)
(* The inputs of the runs.                                                 *)
(***************************************************************************)
\* a mapping with one string key
Item(name, value) == StrKey(name) :> value

\* a document for main that sets every count; the rest defaults
MainDoc(seed, num_scenes, num_mics, num_events, download) ==
    PyDict(Item("runtime",
                PyDict(Item("seed", PyInt(seed))
                       @@ Item("num_scenes", PyInt(num_scenes))
                       @@ Item("num_mics_per_scene", PyInt(num_mics))))
           @@ Item("events", PyDict(Item("events_per_scene", PyInt(num_events))))
           @@ Item("mesh", PyDict(Item("download_gibson_flag", PyBool(download)))))

\* the documents whose scenes are looked at: up to MaxScenes scenes of up to
\* MaxSlots microphones and events
SceneDocs ==
    {MainDoc(0, d[1], d[2], d[3], FALSE) :
        d \in {c \in (1..MaxScenes) \X (0..MaxSlots) \X (0..MaxSlots) :
                 c[2] + c[3] <= MaxSlots}}

\* a document for main of one scene of one event that sets the durations
DurationDoc(seed, scene_duration, event_duration_min, event_duration_max) ==
    LET Maybe(name, v) == IF v.t = "absent" THEN <<>> ELSE Item(name, v) IN
    PyDict(Item("runtime",
                PyDict(Item("seed", PyInt(seed))
                       @@ Item("num_scenes", PyInt(1))
                       @@ Item("num_mics_per_scene", PyInt(0))))
           @@ Item("events",
                   PyDict(Item("events_per_scene", PyInt(1))
                          @@ Maybe("event_duration_min", event_duration_min)
                          @@ Maybe("event_duration_max", event_duration_max)))
           @@ Item("scene", PyDict(Maybe("scene_duration", scene_duration)))
           @@ Item("mesh", PyDict(Item("download_gibson_flag", PyBool(FALSE)))))

\* the documents whose event durations are looked at: scenes shorter than
\* the longest event, a minimum above the maximum, a single duration
DurationDocs ==
    {DurationDoc(seed, sd, d[1], d[2]) :
        seed \in 0..MaxSeed,
        sd \in {PyInt(1), PyInt(3)},
        d \in {<<[t |-> "absent", n |-> 0, s |-> <<>>, m |-> <<>>],
                 [t |-> "absent", n |-> 0, s |-> <<>>, m |-> <<>>]>>,
               <<PyInt(10), PyFloat(1)>>,
               <<PyInt(1), PyInt(1)>>,
               <<PyInt(-1), PyInt(2)>>}}

\* the documents whose start-up is looked at: one scene of one microphone
StartDocs ==
    {MainDoc(seed, num_scenes, 1, 0, download) :
        seed \in 0..MaxSeed, num_scenes \in 0..1, download \in BOOLEAN}

\* the known keys and the type each is coerced to
KnownKeys ==
    {<<"paths", "fg_dir", "path">>, <<"paths", "audio_out", "path">>,
     <<"paths", "meta_out", "path">>,
     <<"runtime", "seed", "int">>, <<"runtime", "num_scenes", "int">>,
     <<"runtime", "num_mics_per_scene", "int">>,
     <<"mesh", "mesh_dir", "path">>, <<"mesh", "download_gibson_flag", "bool">>,
     <<"scene", "sample_rate", "int">>, <<"scene", "scene_duration", "float">>,
     <<"scene", "max_overlap", "int">>, <<"scene", "mic_type", "str">>,
     <<"scene", "bg_noise_floor_db", "float">>,
     <<"events", "events_per_scene", "int">>, <<"events", "event_duration_min", "float">>,
     <<"events", "event_duration_max", "float">>, <<"events", "snr_min", "float">>,
     <<"events", "snr_max", "float">>}

\* the values a document gives a key: one or more of every YAML type
TestValues ==
    {PyNone, PyBool(TRUE), PyBool(FALSE), PyInt(-1), PyInt(0), PyInt(1), PyInt(24000),
     PyFloat(24000 * FloatScale), PyFloat(1), PyStr(<<>>), PyStr(<<"a">>),
     PyStr(<<"a", "/">>), PyStr(<<"2", "4", "0", "0", "0">>), PyList, PyDict(<<>>)}

Absent == [t |-> "absent", n |-> 0, s |-> <<>>, m |-> <<>>]

NumScenesChoices == {Absent, PyInt(-1), PyInt(0), PyInt(1)}

Extras == {"none", "unknown_section", "unknown_scalar", "unknown_key", "nonstr_section",
           "nonstr_key",
           "null_section", "list_section"}

\* a document that sets one known key, maybe runtime.num_scenes, and maybe
\* holds something the loader does not know
CfgDoc(k, v, num_scenes, extra) ==
    LET section == k[1]
        other == IF section = "scene" THEN "events" ELSE "scene"
        inner == Item(k[2], v)
                 @@ (IF extra = "unknown_key" THEN Item("colour", PyInt(1)) ELSE <<>>)
                 @@ (IF extra = "nonstr_key" THEN IntKey("1") :> PyInt(1) ELSE <<>>)
                 @@ (IF section = "runtime" /\ num_scenes # Absent
                     THEN Item("num_scenes", num_scenes) ELSE <<>>)
        outer == Item(section, PyDict(inner))
                 @@ (IF section # "runtime" /\ num_scenes # Absent
                     THEN Item("runtime", PyDict(Item("num_scenes", num_scenes)))
                     ELSE <<>>)
                 @@ (IF extra = "unknown_section" THEN Item("foo", PyDict(<<>>)) ELSE <<>>)
                 @@ (IF extra = "unknown_scalar" THEN Item("foo", PyInt(3)) ELSE <<>>)
                 @@ (IF extra = "nonstr_section" THEN IntKey("1") :> PyDict(<<>>) ELSE <<>>)
                 @@ (IF extra = "null_section" THEN Item(other, PyNone) ELSE <<>>)
                 @@ (IF extra = "list_section" THEN Item(other, PyList) ELSE <<>>)
    IN PyDict(outer)

CfgDocs ==
    {CfgDoc(k, v, n, x) : k \in KnownKeys, v \in TestValues, n \in NumScenesChoices,
                          x \in Extras}
    \cup {PyNone, PyList, PyDict(<<>>)}

CfgFiles ==
    {[exists |-> TRUE, content |-> d] : d \in CfgDocs}
    \cup {[exists |-> FALSE, content |-> PyNone]}

NoDisk == [fg_is_dir |-> FALSE, fg_wavs |-> 0, mesh_is_dir |-> FALSE, mesh_glbs |-> 0,
           outputs_exist |-> FALSE, downloads |-> 0]

Disks ==
    {[fg_is_dir |-> f, fg_wavs |-> IF f THEN w ELSE 0,
      mesh_is_dir |-> d, mesh_glbs |-> IF d THEN g ELSE 0,
      outputs_exist |-> FALSE, downloads |-> 0] :
        f \in BOOLEAN, w \in 0..MaxFg, d \in BOOLEAN, g \in 0..MaxMeshes}

NotLoaded == [res |-> Raise("", "", ""), warnings |-> {}]

\* nothing of main has happened
MainIdle ==
    /\ meshes = 0
    /\ scene_idx = 0
    /\ slot = 0
    /\ tmpdir = NoTmp
    /\ rendered = NotRendered
    /\ common = <<>>
    /\ move_i = 0
    /\ audio_dir = NoFiles
    /\ meta_dir = NoFiles
    /\ err = ""

PlaceIdle ==
    /\ scene = EmptyScene
    /\ args = NoArgs
    /\ call = NoCall
    /\ log = <<>>
    /\ result = "none"

\* a foreground directory and a mesh directory that are populated
FullDisk ==
    [fg_is_dir |-> TRUE, fg_wavs |-> MaxFg, mesh_is_dir |-> TRUE, mesh_glbs |-> MaxMeshes,
     outputs_exist |-> FALSE, downloads |-> 0]

\* main() on a document, a foreground directory and a mesh directory
InitMain ==
    /\ entry = "main"
    /\ pc = "load"
    /\ \/ /\ config_file \in {[exists |-> TRUE, content |-> d] : d \in SceneDocs}
          /\ disk = FullDisk
       \/ /\ config_file \in {[exists |-> TRUE, content |-> d] : d \in StartDocs}
          /\ disk \in Disks
       \/ /\ config_file \in {[exists |-> TRUE, content |-> d] : d \in DurationDocs}
          /\ disk = FullDisk
    /\ clock \in 0..MaxClock
    /\ loaded = NotLoaded
    /\ rng = 0
    /\ mesh = trimesh_load(1)
    /\ MainIdle
    /\ PlaceIdle

\* load_config() on a document
InitCfg ==
    /\ entry = "load_config"
    /\ pc = "load"
    /\ config_file \in CfgFiles
    /\ clock \in 0..MaxClock
    /\ loaded = NotLoaded
    /\ rng = 0
    /\ disk = NoDisk
    /\ mesh = trimesh_load(1)
    /\ MainIdle
    /\ PlaceIdle

\* the arguments of an event placement: the defaults of the configuration
EventArgs(rng_needed, fg_files, max_attempts) ==
    [fn |-> "event",
     rng_needed |-> rng_needed,
     fg_files |-> fg_files,
     scene_duration |-> default_config_dict(0).scene.scene_duration.n,
     event_duration_min |-> default_config_dict(0).events.event_duration_min.n,
     event_duration_max |-> default_config_dict(0).events.event_duration_max.n,
     snr_min |-> default_config_dict(0).events.snr_min.n,
     snr_max |-> default_config_dict(0).events.snr_max.n,
     max_attempts |-> max_attempts]

\* one call of add_random_microphone or add_random_fg_event on a fresh scene
InitPlace ==
    /\ entry = "placement"
    /\ config_file = [exists |-> FALSE, content |-> PyNone]
    /\ clock = 0
    /\ loaded = NotLoaded
    /\ rng \in 0..(RngMod - 1)
    /\ disk = NoDisk
    /\ mesh \in {trimesh_load(k) : k \in 1..MaxMeshes}
    /\ MainIdle
    /\ scene = EmptyScene
    /\ log = <<>>
    /\ result = "none"
    /\ \E fn \in {"mic", "event"}, rng_needed \in BOOLEAN, max_attempts \in 0..MaxAttempts,
          fg_files \in 1..MaxFg :
        /\ call = [NoCall EXCEPT !.fn = fn, !.rng_needed = rng_needed]
        /\ args = IF fn = "mic"
                  THEN [NoArgs EXCEPT !.fn = "mic", !.rng_needed = rng_needed,
                                      !.max_attempts = max_attempts]
                  ELSE EventArgs(rng_needed, fg_files, max_attempts)
        /\ pc = IF fn = "mic" THEN "mic" ELSE "event_enter"

Init == InitMain \/ InitPlace

Next ==
    \/ LoadConfig \/ ListAudioFiles \/ EnsureMeshes
    \/ SceneStart \/ RunEnds
    \/ StartMic \/ MicsDone \/ StartEvent \/ EventsDone
    \/ MicAttemptA \/ MicLoopEnds \/ MicAttemptB
    \/ EventDraws \/ EventAttemptA \/ EventLoopEnds \/ EventAttemptB
    \/ Render \/ RenderFails \/ CheckPairs \/ MovePair \/ SceneEnds

\* runs of main, and placement calls made on their own
Spec == Init /\ [][Next]_vars

\* placement calls made on their own
SpecPlace == InitPlace /\ [][Placement]_vars

\* load_config on its own
SpecCfg == InitCfg /\ [][LoadConfig]_vars

(***************************************************************************)
(* The claims.                                                             *)
(***************************************************************************)
Explicit(i) == log[i].position # NoPosition
Ended == pc \in {"returned", "raised"}

\* C1: a microphone placement call started with rng_needed=True and
\* max_attempts = n >= 1 makes at most n + 1 scene calls; a call with
\* position=None is the (n+1)-th call and follows n rejected calls with an
\* explicit position; and when the scene rejected every explicit position,
\* the call has made exactly n calls with an explicit position and then
\* exactly one with position=None by the time it ends.
C1_ModeAExhaustedBeforeModeB ==
    (entry = "placement" /\ args.fn = "mic" /\ args.rng_needed /\ args.max_attempts >= 1) =>
        LET n == args.max_attempts IN
        /\ Len(log) <= n + 1
        /\ \A i \in 1..Len(log) :
            ~Explicit(i) =>
                /\ i = n + 1
                /\ \A j \in 1..n : Explicit(j) /\ log[j].answer = "ValueError"
        /\ (Ended /\ \A i \in 1..Len(log) : Explicit(i) => log[i].answer = "ValueError") =>
                /\ Len(log) = n + 1
                /\ \A j \in 1..n : Explicit(j)
                /\ ~Explicit(n + 1)

\* C1 witness: max_attempts = 3, three rejected explicit positions, then the
\* one call with position=None, and the call has returned.
C1_Witness ==
    /\ entry = "placement" /\ args.fn = "mic" /\ args.rng_needed
    /\ args.max_attempts = 3
    /\ pc = "returned"
    /\ Len(log) = 4
    /\ \A j \in 1..3 : Explicit(j) /\ log[j].answer = "ValueError"
    /\ ~Explicit(4)

C3_EventDrawnOncePerSlot ==
    \A i, j \in 1..Len(log) :
        (log[i].fn = "event" /\ log[j].fn = "event") =>
            /\ log[i].wav = log[j].wav
            /\ log[i].duration = log[j].duration
            /\ log[i].start = log[j].start
            /\ log[i].snr = log[j].snr

\* C4: a placement call ends by returning True or False unless the scene
\* failed with something other than a rejection; a rejection is never what
\* leaves the call; a failure of another kind leaves the call as it is, and
\* the scene call that failed is the last one made.
C4_RejectionsCaughtOthersPropagate ==
    entry = "placement" =>
        /\ pc = "returned" =>
            /\ result \in {"True", "False"}
            /\ \A i \in 1..Len(log) : log[i].answer \in {"ok", "ValueError"}
            /\ result = "True" <=> (Len(log) > 0 /\ log[Len(log)].answer = "ok")
        /\ pc = "raised" =>
            /\ result = "raised"
            /\ err = "OtherError"
            /\ Len(log) > 0 /\ log[Len(log)].answer = "OtherError"
        /\ \A i \in 1..Len(log) :
            /\ log[i].answer = "OtherError" => (i = Len(log) /\ pc = "raised")
            /\ log[i].answer = "ok" => (i = Len(log) /\ pc = "returned")
        /\ ~Ended => (result = "none" /\ err = "")

\* C4 witness: the scene fails with another kind of error at the second
\* pass of the retry loop, and the call has raised.
C4_Witness ==
    /\ entry = "placement" /\ pc = "raised" /\ args.rng_needed
    /\ args.max_attempts = 3
    /\ Len(log) = 2
    /\ log[1].answer = "ValueError" /\ Explicit(1)
    /\ log[2].answer = "OtherError" /\ Explicit(2)

NumMics == cfg.runtime.num_mics_per_scene

\* the stems the renderer wrote both an audio and a metadata file for
Matched == rendered.wavs \cap rendered.csvs

\* the renderer wrote one audio/metadata pair per microphone placed
FaithfulRender ==
    /\ rendered.done
    /\ rendered.wavs = rendered.csvs
    /\ Cardinality(rendered.wavs) = scene.mics

\* the names in an output directory that came from scene s
FilesOfScene(dir, s) == {name \in DOMAIN dir : dir[name].scene = s}

\* scene_<s, 5 digits>_mic<i, 2 digits>, for s and i below 10
ExpectedName(s, i) ==
    <<"scene_", "0", "0", "0", "0", DigitChars[s + 1], "_mic", "0", DigitChars[i + 1]>>

\* C5 as stated: after a microphone slot failed and the renderer wrote one
\* pair per microphone placed, the run does not end with an error of its own
\* (it goes on to materialize the scene); only a failing renderer or file
\* move can end it.
C5_DegradedSceneMaterialized ==
    (entry = "main" /\ FaithfulRender /\ scene.mics < NumMics /\ pc = "aborted") =>
        err \in {"OSError", "RenderError"}

\* C6: once the renderer has written a number of matched stems other than
\* num_mics_per_scene and the check has run, the run has ended with a
\* RuntimeError and the output directories hold no file of that scene; files
\* of the current scene are in the output directories only when the number
\* of matched stems is num_mics_per_scene; no file of a later scene exists.
C6_MismatchAbortsBeforeMaterialization ==
    entry = "main" =>
        /\ (rendered.done /\ Cardinality(Matched) # NumMics /\ pc # "check") =>
            /\ pc = "aborted"
            /\ err = "RuntimeError"
            /\ FilesOfScene(audio_dir, scene_idx) = {}
            /\ FilesOfScene(meta_dir, scene_idx) = {}
        /\ (FilesOfScene(audio_dir, scene_idx) \cup FilesOfScene(meta_dir, scene_idx)) # {} =>
            (rendered.done /\ Cardinality(Matched) = NumMics)
        /\ \A name \in DOMAIN audio_dir : audio_dir[name].scene <= scene_idx
        /\ \A name \in DOMAIN meta_dir : meta_dir[name].scene <= scene_idx

\* C6 witness: in the second scene the renderer wrote fewer audio files than
\* metadata files, as many metadata files as microphones were asked for, and
\* the run has ended with the RuntimeError, the first scene's files in place.
C6_Witness ==
    /\ entry = "main" /\ pc = "aborted" /\ err = "RuntimeError"
    /\ scene_idx = 1
    /\ rendered.done
    /\ Cardinality(rendered.wavs) < Cardinality(rendered.csvs)
    /\ Cardinality(rendered.csvs) = NumMics
    /\ FilesOfScene(audio_dir, 0) # {}

\* C7: the files of scene s in the output directories are named
\* scene_<s>_mic<i> for i = 0..k-1 without gap; the stems they came from
\* increase with i in string order; a file of the current scene has for i
\* the rank of its stem among the matched stems; the metadata file of a
\* name came from the same stem as the audio file of that name; a finished
\* scene has all its num_mics_per_scene names.
C7_DenseMicNumbering ==
    entry = "main" =>
        /\ \A name \in DOMAIN meta_dir :
            name \in DOMAIN audio_dir /\ meta_dir[name] = audio_dir[name]
        /\ \A name \in (DOMAIN audio_dir) \ (DOMAIN meta_dir) :
            pc = "aborted" /\ err = "OSError"
        /\ \A name \in DOMAIN audio_dir : audio_dir[name].scene <= scene_idx
        /\ \A s \in 0..scene_idx :
            LET names == FilesOfScene(audio_dir, s)
                k == Cardinality(names)
            IN /\ names = {ExpectedName(s, i) : i \in 0..(k - 1)}
               /\ \A i \in 0..(k - 2) :
                    LexLess(audio_dir[ExpectedName(s, i)].stem,
                            audio_dir[ExpectedName(s, i + 1)].stem)
               /\ s < scene_idx => k = NumMics
               /\ s = scene_idx =>
                    \A i \in 0..(k - 1) :
                        LET stem == audio_dir[ExpectedName(s, i)].stem IN
                        /\ stem \in Matched
                        /\ Cardinality({x \in Matched : LexLess(x, stem)}) = i

\* C7 witness: a run of two scenes of two microphones has completed; the
\* stems "b" and "ab" of the second scene became mic01 and mic00.
C7_Witness ==
    /\ entry = "main" /\ pc = "done" /\ scene_idx = 2
    /\ Cardinality(DOMAIN audio_dir) = 4
    /\ DOMAIN meta_dir = DOMAIN audio_dir
    /\ audio_dir[ExpectedName(1, 0)].stem = <<1, 2>>
    /\ audio_dir[ExpectedName(1, 1)].stem = <<2>>
    /\ meta_dir[ExpectedName(1, 1)].stem = <<2>>

(***************************************************************************)
(* The configuration claims.  The document is read here key by key,        *)
(* without the loader.                                                     *)
(***************************************************************************)
Doc == config_file.content

CfgLoaded == entry = "load_config" /\ pc # "load" /\ config_file.exists

\* what the document holds under a section name, Absent if nothing
DocSection(doc, sec) ==
    IF doc.t = "dict" /\ StrKey(sec) \in DOMAIN doc.m THEN doc.m[StrKey(sec)] ELSE Absent

\* what the document holds under section.key, Absent if nothing
DocValue(doc, sec, key) ==
    LET section == DocSection(doc, sec) IN
    IF section.t = "dict" /\ StrKey(key) \in DOMAIN section.m
    THEN section.m[StrKey(key)] ELSE Absent

StringKeyed(v) == v.t = "dict" => \A k \in DOMAIN v.m : k.isstr

\* a mapping (or nothing) of string keys whose known sections are mappings
\* (or nothing) of string keys
WellFormed(doc) ==
    /\ doc.t \in {"dict", "none"}
    /\ StringKeyed(doc)
    /\ \A sec \in SectionNames :
        /\ DocSection(doc, sec).t \in {"dict", "none", "absent"}
        /\ StringKeyed(DocSection(doc, sec))

\* the values a field of a type takes
Accepts(type, v) ==
    CASE type = "int" -> v.t = "int"
      [] type = "float" -> v.t \in {"int", "float"}
      [] type = "bool" -> v.t = "bool"
      [] type = "str" -> v.t = "str" /\ v.s # <<>>
      [] type = "path" -> (v.t = "str" /\ v.s # <<>>) \/ v.t = "path"

\* what the error of a refused value says
Refusal(type, v) ==
    CASE type = "int" -> "must be an integer"
      [] type = "float" -> "must be a number"
      [] type = "bool" -> "must be a boolean"
      [] type = "str" -> IF v.t = "str" THEN "must not be empty" ELSE "must be a string"
      [] type = "path" -> IF v.t = "str" THEN "must not be empty" ELSE "must be a path string"

\* the known keys the document sets to a value their type refuses
BadValues(doc) ==
    {k \in KnownKeys :
        DocValue(doc, k[1], k[2]) # Absent /\ ~Accepts(k[3], DocValue(doc, k[1], k[2]))}

DocNumScenes == DocValue(Doc, "runtime", "num_scenes")

\* C8: a document whose runtime.num_scenes is an integer <= 0 fails to load
\* with a ValueError (in a well-formed document whose other values are
\* accepted, the one saying runtime.num_scenes must be greater than 0); a
\* well-formed document with num_scenes = 1 and accepted values loads; every
\* configuration returned has num_scenes > 0.
C8_NumScenesPositive ==
    CfgLoaded =>
        /\ (DocNumScenes.t = "int" /\ DocNumScenes.n <= 0) =>
            /\ loaded.res.raised /\ loaded.res.exc = "ValueError"
            /\ pc = "aborted" /\ err = "ValueError"
            /\ (WellFormed(Doc) /\ BadValues(Doc) = {}) =>
                /\ loaded.res.key = "runtime.num_scenes"
                /\ loaded.res.why = "must be greater than 0"
        /\ (DocNumScenes = PyInt(1) /\ WellFormed(Doc) /\ BadValues(Doc) = {}) =>
            /\ ~loaded.res.raised
            /\ pc = "loaded"
            /\ loaded.res.value.runtime.num_scenes = 1
        /\ ~loaded.res.raised => loaded.res.value.runtime.num_scenes > 0

\* C8 witness: runtime.num_scenes = 0 in a document with nothing else wrong
\* has been refused as not greater than 0.
C8_Witness ==
    /\ CfgLoaded
    /\ DocNumScenes = PyInt(0)
    /\ WellFormed(Doc) /\ BadValues(Doc) = {}
    /\ pc = "aborted"
    /\ loaded.res.why = "must be greater than 0"

\* C9: a document that sets a known key to a value its type refuses (int:
\* anything but an integer; float: anything but an integer or a float; bool:
\* anything but a boolean; str and path: anything but a non-empty string) fails
\* to load and returns no configuration, the error being the refusal of one
\* such value unless the document is malformed or num_scenes is not positive;
\* and a well-formed document fails to load only for such a value or for
\* num_scenes <= 0.
C9_StrictCoercion ==
    CfgLoaded =>
        /\ BadValues(Doc) # {} =>
            /\ loaded.res.raised /\ loaded.res.exc = "ValueError"
            /\ pc = "aborted"
            /\ WellFormed(Doc) =>
                loaded.res.why \in
                    {Refusal(k[3], DocValue(Doc, k[1], k[2])) : k \in BadValues(Doc)}
                    \cup {"must be greater than 0"}
        /\ (loaded.res.raised /\ WellFormed(Doc)) =>
            \/ BadValues(Doc) # {}
            \/ DocNumScenes.t = "int" /\ DocNumScenes.n <= 0
        /\ \A k \in KnownKeys :
            LET v == DocValue(Doc, k[1], k[2]) IN
            (~loaded.res.raised /\ v # Absent) =>
                CASE k[3] = "int" -> v.t = "int"
                  [] k[3] = "float" -> v.t \in {"int", "float"}
                  [] k[3] = "bool" -> v.t = "bool"
                  [] OTHER -> v.t = "str" /\ Len(v.s) > 0

\* C9 witness: scene.sample_rate: 24000.0 has been refused as not an integer.
C9_Witness ==
    /\ CfgLoaded
    /\ DocValue(Doc, "scene", "sample_rate") = PyFloat(24000 * FloatScale)
    /\ DocNumScenes = Absent
    /\ loaded.res.raised
    /\ loaded.res.key = "scene.sample_rate"
    /\ loaded.res.why = "must be an integer"

\* the keys the defaults hold for a section
AllowedKeys(sec) == {k[2] : k \in {x \in KnownKeys : x[1] = sec}}

\* a mapping without its unknown keys: all of them, or only the string ones
StripMapping(v, allowed, all) ==
    IF v.t # "dict" THEN v
    ELSE PyDict([k \in {x \in DOMAIN v.m : IF x.isstr THEN x.name \in allowed ELSE ~all}
                    |-> v.m[k]])

\* a document without its unknown sections and unknown keys
StripUnknown(doc, all) ==
    IF doc.t # "dict" THEN doc
    ELSE LET top == StripMapping(doc, SectionNames, all).m IN
         PyDict([k \in DOMAIN top |->
                    IF k.isstr THEN StripMapping(top[k], AllowedKeys(k.name), all)
                    ELSE top[k]])

\* what a field of a type holds for an accepted value
Coerced(type, v) ==
    CASE type = "int" -> v.n
      [] type = "float" -> IF v.t = "int" THEN v.n * FloatScale ELSE v.n
      [] type = "bool" -> v.n = 1
      [] type = "str" -> v.s
      [] type = "path" ->
            IF v.t = "path" THEN [abs |-> v.n = 1, parts |-> v.s]
            ELSE [abs |-> Len(v.s) > 0 /\ v.s[1] = "/",
                  parts |-> SelectSeq(v.s, LAMBDA c : c # "/" /\ c # ".")]

\* C10 as stated: the unknown sections and unknown keys of a document, of
\* whatever kind, make no difference to what loading it gives, failure or
\* configuration.
C10_UnknownKeysHarmless ==
    CfgLoaded =>
        loaded.res = load_config([exists |-> TRUE, content |-> StripUnknown(Doc, TRUE)],
                                 clock).res

\* C10 amended: the unknown sections and unknown keys of a document that are
\* named by strings make no difference to what loading it gives and are each
\* warned of; a document that loads gives every field the document's value
\* for its key if it sets it and the default otherwise.  (A key that is not
\* a string, at the top or in a known section, fails the load.)
C10_StringUnknownKeysHarmless ==
    CfgLoaded =>
        /\ loaded.res = load_config([exists |-> TRUE, content |-> StripUnknown(Doc, FALSE)],
                                    clock).res
        /\ ~loaded.res.raised =>
            /\ pc = "loaded"
            /\ \A k \in KnownKeys :
                loaded.res.value[k[1]][k[2]] =
                    IF DocValue(Doc, k[1], k[2]) # Absent
                    THEN Coerced(k[3], DocValue(Doc, k[1], k[2]))
                    ELSE Coerced(k[3], default_config_dict(clock)[k[1]][k[2]])
            /\ loaded.warnings =
                {[section |-> "", key |-> x.name] :
                    x \in {y \in DOMAIN Doc.m : y.name \notin SectionNames}}
                \cup UNION {
                    {[section |-> sec, key |-> x.name] :
                        x \in {y \in DOMAIN DocSection(Doc, sec).m :
                                y.name \notin AllowedKeys(sec)}} :
                    sec \in SectionNames}
        /\ (loaded.res.raised /\ StringKeyed(Doc)
                /\ \A sec \in SectionNames : StringKeyed(DocSection(Doc, sec))) =>
            load_config([exists |-> TRUE, content |-> StripUnknown(Doc, TRUE)], clock).res.raised

\* C10 witness: a document with an unknown section and scene.sample_rate: 1
\* has loaded with a warning, sample_rate 1 and the other fields at their
\* defaults.
C10_Witness ==
    /\ CfgLoaded
    /\ ~loaded.res.raised
    /\ [section |-> "", key |-> "foo"] \in loaded.warnings
    /\ DocValue(Doc, "scene", "sample_rate") = PyInt(1)
    /\ loaded.res.value.scene.sample_rate = 1
    /\ loaded.res.value.runtime.seed = 0
    /\ loaded.res.value.scene.max_overlap = 15

\* the .glb files a listing of the mesh directory finds on disk d
MeshesOn(d) == IF d.mesh_is_dir THEN d.mesh_glbs ELSE 0

C12_EventTimesWithinBounds ==
    (entry = "main" /\ ~loaded.res.raised) =>
        \A i \in 1..Len(log) :
            log[i].fn = "event" =>
                /\ cfg.events.event_duration_min <= log[i].duration
                /\ log[i].duration <= cfg.events.event_duration_max
                /\ 0 <= log[i].start
                /\ log[i].start + log[i].duration <= cfg.scene.scene_duration

\* C12 witness: with a scene of 3 s and durations of 0.5 s to 10 s an event
\* of 2.5 s has been placed, longer than the minimum and within the scene.
C12_Witness ==
    /\ entry = "main" /\ ~loaded.res.raised
    /\ cfg.scene.scene_duration = 3 * FloatScale
    /\ cfg.events.event_duration_max = 10 * FloatScale
    /\ \E i \in 1..Len(log) :
        /\ log[i].fn = "event" /\ log[i].answer = "ok"
        /\ log[i].duration > cfg.events.event_duration_min
        /\ log[i].duration = 5

\* C13: a temporary workspace exists only between the rendering of a scene
\* and the end of its moves; none exists when a workspace is about to be
\* created (so never two at a time), none after the run has ended or
\* aborted, and a removed workspace leaves no file behind.
C13_WorkspaceScoped ==
    /\ tmpdir.exists => (entry = "main" /\ pc \in {"check", "move"} /\ rendered.done)
    /\ pc \in {"render", "aborted", "done", "scene"} => ~tmpdir.exists
    /\ ~tmpdir.exists => tmpdir = NoTmp

\* C13 witness: the first scene was materialized, the second was rendered
\* and a file move of it failed; the run has aborted and no workspace exists.
C13_Witness ==
    /\ entry = "main" /\ pc = "aborted" /\ err = "OSError"
    /\ scene_idx = 1
    /\ rendered.done
    /\ FilesOfScene(audio_dir, 0) # {}
    /\ ~tmpdir.exists

\* the generator state after k draws from state s
RECURSIVE Advance(_, _)
Advance(s, k) == IF k = 0 THEN s ELSE Advance(rng_next(s), k - 1)

\* the steps at which the code draws from the generator, or creates it
DrawingStep ==
    \/ pc = "load"
    \/ pc = "scene" /\ pc' = "mics"
    \/ pc \in {"mic", "event"} /\ Len(log') = Len(log) + 1
    \/ pc = "event_enter"
    \/ pc = "events" /\ pc' = "render"

\* C14: the generator is created once, from the seed of the configuration
\* alone; after that every step leaves it where the draws of that step, made
\* one after another from where it was, put it: one for the mesh, three for
\* an explicit position, four on entry to an event placement, one for the
\* ambience, none anywhere else; and what is passed to the scene (the mesh
\* chosen, the position, the event's file, duration, start and SNR, the
\* ambience colour) is what those draws give, so that equal seeds,
\* configurations, inventories and scene answers give equal arguments in
\* equal order, whatever the wall clock.
C14_SingleSeededGenerator ==
    [][/\ pc = "load" =>
            IF entry = "main" /\ ~loaded'.res.raised
            THEN rng' = loaded'.res.value.runtime.seed % RngMod
            ELSE rng' = rng
       /\ (pc = "scene" /\ pc' = "mics") =>
            /\ rng' = Advance(rng, 1)
            /\ mesh'.path = ((Advance(rng, 1) * meshes) \div RngMod) + 1
       /\ (pc \in {"mic", "event"} /\ Len(log') = Len(log) + 1) =>
            LET passed == log'[Len(log')]
                u == <<Advance(rng, 1), Advance(rng, 2), Advance(rng, 3)>>
            IN /\ IF call.rng_needed
                  THEN /\ rng' = Advance(rng, 3)
                       /\ passed.position =
                            IF pc = "mic" THEN mic_position(mesh, u)
                            ELSE event_position(mesh, u)
                  ELSE /\ rng' = rng
                       /\ passed.position = NoPosition
               /\ pc = "event" =>
                    /\ passed.wav = call.wav
                    /\ passed.duration = call.event_duration
                    /\ passed.start = call.event_start
                    /\ passed.snr = call.snr
       /\ (pc = "event_enter" /\ pc' = "event") =>
            /\ rng' = Advance(rng, 4)
            /\ call'.wav = ((Advance(rng, 1) * args.fg_files) \div RngMod) + 1
            /\ call'.event_duration =
                args.event_duration_min
                + ((args.event_duration_max - args.event_duration_min) * Advance(rng, 2))
                  \div RngMod
            /\ call'.event_start =
                ((args.scene_duration - call'.event_duration) * Advance(rng, 3)) \div RngMod
            /\ call'.snr =
                args.snr_min + ((args.snr_max - args.snr_min) * Advance(rng, 4)) \div RngMod
       /\ (pc = "event_enter" /\ pc' # "event") =>
            rng' \in {Advance(rng, k) : k \in 1..3}
       /\ (pc = "events" /\ pc' = "render") =>
            /\ rng' = Advance(rng, 1)
            /\ scene'.ambience =
                <<"white", "pink", "gaussian">>[((Advance(rng, 1) * 3) \div RngMod) + 1]
       /\ ~DrawingStep => rng' = rng
       /\ mesh' # mesh => pc = "scene"
      ]_vars

\* C14 witness: a run started at the later wall-clock time is in its second
\* scene and has passed a second explicit microphone position to the scene,
\* drawn after the first was rejected.
C14_Witness ==
    /\ entry = "main" /\ clock = 1
    /\ scene_idx = 1
    /\ Len(log) >= 2
    /\ log[1].fn = "mic" /\ log[1].answer = "ValueError"
    /\ log[2].fn = "mic" /\ log[2].position # NoPosition
    /\ log[2].position # log[1].position

\* C15: a placement call entered with rng_needed that has returned False
\* made a last call to the scene that let the backend choose the position
\* and was rejected, and that was its only such call.
C15_FailureOnlyAfterModeB ==
    (entry = "placement" /\ args.rng_needed /\ pc = "returned" /\ result = "False") =>
        /\ Len(log) > 0
        /\ log[Len(log)].position = NoPosition
        /\ log[Len(log)].answer = "ValueError"
        /\ Cardinality({i \in 1..Len(log) : log[i].position = NoPosition}) = 1

\* the known keys other than runtime.num_scenes set to a refused value
OtherBadValues(doc) == {k \in BadValues(doc) : k # <<"runtime", "num_scenes", "int">>}

\* C16 as stated: a well-formed document with num_scenes <= 0 and another
\* known key set to a value of the wrong type fails with the error of that
\* other key, not with the num_scenes error.
C16_TypeErrorsReportedFirst ==
    (CfgLoaded /\ WellFormed(Doc) /\ DocNumScenes.t = "int" /\ DocNumScenes.n <= 0
        /\ OtherBadValues(Doc) # {}) =>
        /\ loaded.res.raised
        /\ loaded.res.key # "runtime.num_scenes"
        /\ loaded.res.why \in
            {Refusal(k[3], DocValue(Doc, k[1], k[2])) : k \in OtherBadValues(Doc)}

\* C16 amended: runtime.num_scenes is coerced and checked before any other
\* known key is coerced.  A well-formed document with an integer num_scenes
\* <= 0 fails with the num_scenes "greater than 0" error whatever its other
\* keys hold; one whose num_scenes is not an integer fails with the
\* num_scenes integer error; the error of another key is reported only when
\* num_scenes is absent or a positive integer.
C16_NumScenesReportedFirst ==
    (CfgLoaded /\ WellFormed(Doc)) =>
        /\ (DocNumScenes.t = "int" /\ DocNumScenes.n <= 0) =>
            /\ loaded.res.raised
            /\ loaded.res.key = "runtime.num_scenes"
            /\ loaded.res.why = "must be greater than 0"
        /\ DocNumScenes.t \notin {"int", "absent"} =>
            /\ loaded.res.raised
            /\ loaded.res.key = "runtime.num_scenes"
            /\ loaded.res.why = "must be an integer"
        /\ (OtherBadValues(Doc) # {}
                /\ (DocNumScenes.t = "absent" \/ (DocNumScenes.t = "int" /\ DocNumScenes.n > 0))) =>
            /\ loaded.res.raised
            /\ loaded.res.key # "runtime.num_scenes"
            /\ loaded.res.why \in
                {Refusal(k[3], DocValue(Doc, k[1], k[2])) : k \in OtherBadValues(Doc)}

\* C16 witness: runtime.seed is a string and runtime.num_scenes is 0; the
\* load has failed with the num_scenes error.
C16_Witness ==
    /\ CfgLoaded /\ WellFormed(Doc)
    /\ DocNumScenes = PyInt(0)
    /\ DocValue(Doc, "runtime", "seed") = PyStr(<<"a">>)
    /\ loaded.res.raised
    /\ loaded.res.key = "runtime.num_scenes"
    /\ loaded.res.why = "must be greater than 0"

====
